---- MODULE Spec2Model ----
(***************************************************************************)
(* Model of the marketplace workflow: the Express route handlers of        *)
(* backend/routes (projects, requests, tasks, submissions, users) acting   *)
(* on the relational store of the Prisma migration.                        *)
(*                                                                         *)
(* A handler is an async function: it returns to the event loop at every   *)
(* awaited store call, where the other requests in flight run.  Each       *)
(* action below is one such piece of a handler: the dispatch of a request  *)
(* up to and including its first store call, or one later store call with  *)
(* the synchronous code that follows it up to the next await or the        *)
(* response.  procs holds the requests in flight.                          *)
(*                                                                         *)
(* Every specification takes a request whenever a slot is idle, whatever   *)
(* the other slot is doing, answers the requests refused at entry, and lets*)
(* every awaited store call reject (catch -> 500, the writes made so far   *)
(* stay).  The specifications differ in their routes, their first store and*)
(* the inputs they draw:                                                   *)
(* Spec        : every write route, from the empty store.                  *)
(* SpecAssign  : PUT /api/projects/:id/assign and POST /api/requests.      *)
(* SpecCreate  : the assignment and POST /api/tasks.                       *)
(* SpecUsers   : the assignment and PUT /api/users/:id/assign-buyer.       *)
(* SpecRace    : POST /api/tasks, POST /api/submissions and the review.    *)
(* SpecReject  : the routes with an ownership check, two buyers, two       *)
(*               solvers.                                                  *)
(* SpecSubmit  : POST /api/submissions and PUT /api/submissions/:id/review.*)
(* SpecUpdate  : PUT /api/tasks/:id, the submission and the review.        *)
(* SpecReassign: the assignment and the submission, two solvers.           *)
(* SpecReview  : the review on a project with two submitted tasks.         *)
(* SpecReads   : the read routes, and a resubmission.                      *)
(***************************************************************************)
EXTENDS Integers, Sequences, FiniteSets, TLC

VARIABLES role, projects, requests, tasks, submissions, files, procs

vars == <<role, projects, requests, tasks, submissions, files, procs>>

store == <<role, projects, requests, tasks, submissions, files>>

(***************************************************************************)
(* Bounds of the model.                                                    *)
(***************************************************************************)
MaxProjects == 1
MaxTasks == 2
MaxFiles == 2
MaxRequests == 3
MaxInFlight == 2
\* Spec, SpecRace and SpecReject keep fewer tasks than MaxTasks.
MaxTasksSpec == 1

(***************************************************************************)
(* The rows of table users, and the values of the text columns.            *)
(***************************************************************************)
Users == {"a1", "b1", "b2", "s1", "s2"}

InitialRole ==
  [u \in Users |-> CASE u = "a1" -> "admin"
                     [] u \in {"b1", "b2"} -> "buyer"
                     [] OTHER -> "problem_solver"]

NULL == "null"
GhostUser == "ghost"
EmptyField == ""
NoId == 0
NoStatus == "none"
BogusStatus == "bogus"

ProjectStatuses == {"open", "assigned", "in_progress", "completed"}
RequestStatuses == {"pending", "accepted", "rejected"}
TaskStatuses == {"pending", "in_progress", "submitted", "completed", "rejected"}
SubmissionStatuses == {"pending", "accepted", "rejected"}

(***************************************************************************)
(* middleware/auth.js: authorize(...roles) lets the request through only   *)
(* when the caller's role is one of roles.                                 *)
(***************************************************************************)
Authorize(u, roles) == role[u] \in roles

(***************************************************************************)
(* Store reads.                                                            *)
(***************************************************************************)
ProjectExists(ps, p) == p \in DOMAIN ps

RequestsOf(rs, p) == {i \in DOMAIN rs : rs[i].projectId = p}

RequestExists(rs, p, s) ==
  \E i \in DOMAIN rs : rs[i].projectId = p /\ rs[i].solverId = s

TasksOf(ts, p) == {i \in DOMAIN ts : ts[i].projectId = p}

SubmissionOf(ss, t) == {i \in DOMAIN ss : ss[i].taskId = t}

(***************************************************************************)
(* Store writes.                                                           *)
(***************************************************************************)
ProjectCreate(ps, buyer) ==
  Append(ps, [buyerId |-> buyer, assignedSolverId |-> NULL, status |-> "open"])

ProjectUpdateAssign_SolverOnly(ps, p, s) ==
  [ps EXCEPT ![p] = [@ EXCEPT !.assignedSolverId = s]]

ProjectUpdateAssign(ps, p, s) ==
  [ps EXCEPT ![p] = [@ EXCEPT !.assignedSolverId = s, !.status = "assigned"]]

ProjectUpdateStatus(ps, p, st) ==
  [ps EXCEPT ![p] = [@ EXCEPT !.status = st]]

RequestsAccept(rs, p, s) ==
  [i \in DOMAIN rs |->
     IF rs[i].projectId = p /\ rs[i].solverId = s
       THEN [rs[i] EXCEPT !.status = "accepted"]
       ELSE rs[i]]

RequestsRejectOthers_AnyProject(rs, p, s) ==
  [i \in DOMAIN rs |->
     IF rs[i].projectId = p
       THEN [rs[i] EXCEPT !.status = "rejected"]
       ELSE rs[i]]

RequestsRejectOthers(rs, p, s) ==
  [i \in DOMAIN rs |->
     IF rs[i].projectId = p /\ rs[i].solverId # s
       THEN [rs[i] EXCEPT !.status = "rejected"]
       ELSE rs[i]]

RequestUniqueViolation_NoIndex(rs, p, s) == FALSE

\* The unique index requests_projectId_solverId_key refuses a second row.
RequestUniqueViolation(rs, p, s) == RequestExists(rs, p, s)

RequestCreate(rs, p, s) ==
  Append(rs, [projectId |-> p, solverId |-> s, status |-> "pending"])

TaskCreate_InProgress(ts, p) ==
  Append(ts, [projectId |-> p, status |-> "in_progress"])

TaskCreate(ts, p) ==
  Append(ts, [projectId |-> p, status |-> "pending"])

TaskUpdateStatus_OnlyFromPending(ts, t, st) ==
  IF ts[t].status = "pending" THEN [ts EXCEPT ![t] = [@ EXCEPT !.status = st]]
                              ELSE ts

TaskUpdateStatus(ts, t, st) ==
  [ts EXCEPT ![t] = [@ EXCEPT !.status = st]]

SubmissionUniqueViolation_NoIndex(ss, t) == FALSE

\* The unique index submissions_taskId_key refuses a second row of a task.
SubmissionUniqueViolation(ss, t) == SubmissionOf(ss, t) # {}

SubmissionCreate(ss, t, p, u, f) ==
  Append(ss, [taskId |-> t, projectId |-> p, solverId |-> u,
              filePath |-> f, status |-> "pending"])

SubmissionReplace(ss, i, f) ==
  [ss EXCEPT ![i] = [@ EXCEPT !.filePath = f, !.status = "pending"]]

SubmissionUpdateStatus(ss, i, st) ==
  [ss EXCEPT ![i] = [@ EXCEPT !.status = st]]

AllCompleted_Any(ts, p) ==
  \E i \in TasksOf(ts, p) : ts[i].status = "completed"

AllCompleted(ts, p) ==
  /\ \A i \in TasksOf(ts, p) : ts[i].status = "completed"
  /\ Cardinality(TasksOf(ts, p)) > 0

Unlink_Keep(fs, f) == fs

\* fs.unlinkSync(path): the file is gone from the upload directory.
Unlink(fs, f) == fs \ {f}

(***************************************************************************)
(* Requests in flight.  procs[h] is a request being served: its route, the *)
(* await it stands before (pc), the caller, the ids and values of its      *)
(* params and body, and for POST /api/tasks the project status its first   *)
(* read returned (was); once it has answered, procs[h] is the response.    *)
(***************************************************************************)
Handlers == 1..MaxInFlight

Idle == [op |-> "none", pc |-> "idle"]

\* A request of the assign or request route: req.params.id or
\* req.body.projectId, and req.body.solverId.
Running(op, pc, u, p, s, was) ==
  [op |-> op, pc |-> pc, actor |-> u, project |-> p, solver |-> s,
   was |-> was]

\* A request of another route: the project, task, submission or user id it
\* names (id) and the stored file, the status or the decision it carries (arg).
Serving(op, pc, u, id, arg, was) ==
  [op |-> op, pc |-> pc, actor |-> u, id |-> id, arg |-> arg, was |-> was]

\* res.status(code).json({message}): the request has been answered and the
\* slot holds the response.
Done(op, res) ==
  [op |-> op, pc |-> "done", code |-> res[1], msg |-> res[2]]

Free(h) == procs[h].pc \in {"idle", "done"}

\* A new request takes the first slot that holds neither a request being
\* served nor a response that has not been read.
Accepts(h) == procs[h] = Idle /\ \A g \in Handlers : g < h => procs[g] # Idle

InFlight(h) == ~Free(h)

Init ==
  /\ role = InitialRole
  /\ projects = <<>>
  /\ requests = <<>>
  /\ tasks = <<>>
  /\ submissions = <<>>
  /\ files = {}
  /\ procs = [h \in Handlers |-> Idle]

ProjectIdInputs == NoId..(MaxProjects + 1)
TaskIdInputs == NoId..(MaxTasks + 1)
SubmissionIdInputs == 1..(MaxTasks + 1)
SolverIdInputs == Users \cup {GhostUser, EmptyField}
UserIdInputs == Users \cup {GhostUser}
StatusInputs == TaskStatuses \cup {NoStatus, BogusStatus}
ReviewInputs == {"accepted", "rejected", BogusStatus}
FileInputs == {"zip", "other", "none"}

(***************************************************************************)
(* POST /api/projects: one store call, prisma.project.create.              *)
(***************************************************************************)
\* ok: prisma.project.create resolves; when it rejects the catch block
\* answers 500.
CreateProjectResult(u, valid, ok) ==
  CASE ~Authorize(u, {"buyer"}) -> <<403, "role">>
    [] ~valid -> <<400, "validation">>
    [] ~ok -> <<500, "Server error">>
    [] OTHER -> <<201, "">>

CreateProject(h, u, valid, ok) ==
  LET res == CreateProjectResult(u, valid, ok) IN
  /\ Accepts(h)
  /\ res[1] = 201 => Len(projects) < MaxProjects
  /\ projects' = IF res[1] = 201 THEN ProjectCreate(projects, u) ELSE projects
  /\ procs' = [procs EXCEPT ![h] =
                 Done("createProject", res)]
  /\ UNCHANGED <<role, requests, tasks, submissions, files>>

(***************************************************************************)
(* POST /api/requests                                                      *)
(***************************************************************************)
\* Up to the open check: validation, findUnique of the project, its status.
\* <<0, "">> stands for "not answered yet"; ok: the findUnique resolves.
RequestEntryResult(u, p, ok) ==
  CASE ~Authorize(u, {"problem_solver"}) -> <<403, "role">>
    [] p = NoId -> <<400, "validation">>
    [] ~ok -> <<500, "Server error">>
    [] ~ProjectExists(projects, p) -> <<404, "Project not found">>
    [] projects[p].status # "open" -> <<400, "Project is not open for requests">>
    [] OTHER -> <<0, "">>

BeginCreateRequest(h, u, p, ok) ==
  LET res == RequestEntryResult(u, p, ok) IN
  /\ Accepts(h)
  /\ procs' = [procs EXCEPT ![h] =
                 IF res[1] = 0
                   THEN Running("createRequest", "request_check", u, p, NULL,
                                NULL)
                   ELSE Done("createRequest", res)]
  /\ UNCHANGED store

\* prisma.request.findUnique on (projectId, solverId).
CreateRequestCheck(h) ==
  LET r == procs[h] IN
  /\ r.pc = "request_check"
  /\ procs' = [procs EXCEPT ![h] =
                 IF RequestExists(requests, r.project, r.actor)
                   THEN Done("createRequest", <<400, "Request already exists">>)
                   ELSE [r EXCEPT !.pc = "request_insert"]]
  /\ UNCHANGED store

\* prisma.request.create; P2002 from the unique index is answered with 400.
CreateRequestInsert(h) ==
  LET r == procs[h] IN
  /\ r.pc = "request_insert"
  /\ IF RequestUniqueViolation(requests, r.project, r.actor)
       THEN /\ requests' = requests
            /\ procs' = [procs EXCEPT ![h] =
                           Done("createRequest", <<400, "Request already exists">>)]
       ELSE /\ Len(requests) < MaxRequests
            /\ requests' = RequestCreate(requests, r.project, r.actor)
            /\ procs' = [procs EXCEPT ![h] =
                           Done("createRequest", <<201, "">>)]
  /\ UNCHANGED <<role, projects, tasks, submissions, files>>

(***************************************************************************)
(* PUT /api/projects/:id/assign                                            *)
(***************************************************************************)
\* Up to the ownership check: validation, findUnique of the project, buyerId.
AssignEntryResult(u, p, s, ok) ==
  CASE ~Authorize(u, {"buyer"}) -> <<403, "role">>
    [] s = EmptyField -> <<400, "validation">>
    [] ~ok -> <<500, "Server error">>
    [] ~ProjectExists(projects, p) -> <<404, "Project not found">>
    [] projects[p].buyerId # u -> <<403, "Not authorized">>
    [] OTHER -> <<0, "">>

BeginAssign(h, u, p, s, ok) ==
  LET res == AssignEntryResult(u, p, s, ok) IN
  /\ Accepts(h)
  /\ p # NoId
  /\ procs' = [procs EXCEPT ![h] =
                 IF res[1] = 0
                   THEN Running("assignSolver", "assign_update", u, p, s,
                                NULL)
                   ELSE Done("assignSolver", res)]
  /\ UNCHANGED store

\* prisma.project.update: projects_assignedSolverId_fkey refuses a solverId
\* that is no user, the update throws and the catch block answers 500.
AssignUpdateProject(h) ==
  LET r == procs[h] IN
  /\ r.pc = "assign_update"
  /\ IF r.solver \in Users
       THEN /\ projects' = ProjectUpdateAssign(projects, r.project, r.solver)
            /\ procs' = [procs EXCEPT ![h].pc = "assign_accept"]
       ELSE /\ projects' = projects
            /\ procs' = [procs EXCEPT ![h] =
                           Done("assignSolver", <<500, "Server error">>)]
  /\ UNCHANGED <<role, requests, tasks, submissions, files>>

\* prisma.request.updateMany({projectId, solverId}, {status: 'accepted'}).
AssignAcceptRequest(h) ==
  LET r == procs[h] IN
  /\ r.pc = "assign_accept"
  /\ requests' = RequestsAccept(requests, r.project, r.solver)
  /\ procs' = [procs EXCEPT ![h].pc = "assign_reject"]
  /\ UNCHANGED <<role, projects, tasks, submissions, files>>

\* prisma.request.updateMany({projectId, solverId: {not}}, {status:
\* 'rejected'}) and the response.
AssignRejectOthers(h) ==
  LET r == procs[h] IN
  /\ r.pc = "assign_reject"
  /\ requests' = RequestsRejectOthers(requests, r.project, r.solver)
  /\ procs' = [procs EXCEPT ![h] =
                 Done("assignSolver", <<200, "Project assigned successfully">>)]
  /\ UNCHANGED <<role, projects, tasks, submissions, files>>

\* The awaited store call a handler stands before rejects (the store is
\* unreachable): the catch block answers 500 and the writes already made
\* stay.  The catch block of POST /api/submissions unlinks req.file.path
\* first.  The upload and the file send of a download are no store calls.
StoreFailure(h) ==
  /\ InFlight(h)
  /\ procs[h].pc \notin {"sub_upload", "download_send"}
  /\ files' = IF procs[h].op = "submission" THEN Unlink(files, procs[h].arg)
                                            ELSE files
  /\ procs' = [procs EXCEPT ![h] =
                 Done(procs[h].op, <<500, "Server error">>)]
  /\ UNCHANGED <<role, projects, requests, tasks, submissions>>

(***************************************************************************)
(* POST /api/tasks                                                         *)
(***************************************************************************)
CreateTaskResult_NoOwnerCheck(u, p, valid, ok) ==
  CASE ~Authorize(u, {"problem_solver"}) -> <<403, "role">>
    [] ~valid \/ p = NoId -> <<400, "validation">>
    [] ~ok -> <<500, "Server error">>
    [] ~ProjectExists(projects, p) -> <<404, "Project not found">>
    [] projects[p].assignedSolverId = NULL -> <<400, "Project is not assigned yet">>
    [] OTHER -> <<201, "">>

\* Up to the checks of the assigned solver; <<201, "">> is "goes on to
\* prisma.task.create".
CreateTaskResult(u, p, valid, ok) ==
  CASE ~Authorize(u, {"problem_solver"}) -> <<403, "role">>
    [] ~valid \/ p = NoId -> <<400, "validation">>
    [] ~ok -> <<500, "Server error">>
    [] ~ProjectExists(projects, p) -> <<404, "Project not found">>
    [] projects[p].assignedSolverId = NULL -> <<400, "Project is not assigned yet">>
    [] projects[p].assignedSolverId # u ->
         <<403, "Not authorized to create tasks for this project">>
    [] OTHER -> <<201, "">>

\* The role, validation, findUnique of the project and the checks of its
\* assigned solver.  was is project.status as findUnique returned it.
BeginCreateTask(h, u, p, valid, ok) ==
  LET res == CreateTaskResult(u, p, valid, ok) IN
  /\ Accepts(h)
  /\ procs' = [procs EXCEPT ![h] =
                 IF res[1] = 201
                   THEN Serving("createTask", "task_insert", u, p, NULL,
                                projects[p].status)
                   ELSE Done("createTask", res)]
  /\ UNCHANGED store

\* prisma.task.create, then the test of the project status read at entry.
CreateTaskInsert(h) ==
  LET r == procs[h] IN
  /\ r.pc = "task_insert"
  /\ Len(tasks) < MaxTasks
  /\ tasks' = TaskCreate(tasks, r.id)
  /\ procs' = [procs EXCEPT ![h] =
                 IF r.was = "assigned"
                   THEN [r EXCEPT !.pc = "task_project"]
                   ELSE Done("createTask", <<201, "">>)]
  /\ UNCHANGED <<role, projects, requests, submissions, files>>

\* prisma.project.update({status: 'in_progress'}) and the response.
CreateTaskUpdateProject(h) ==
  LET r == procs[h] IN
  /\ r.pc = "task_project"
  /\ projects' = ProjectUpdateStatus(projects, r.id, "in_progress")
  /\ procs' = [procs EXCEPT ![h] =
                 Done("createTask", <<201, "">>)]
  /\ UNCHANGED <<role, requests, tasks, submissions, files>>

(***************************************************************************)
(* PUT /api/tasks/:id                                                      *)
(***************************************************************************)
SolverAllowList == {"pending", "in_progress", "submitted"}
BuyerAllowList == {"completed", "rejected"}

\* Up to the ownership checks; <<200, "">> is "goes on to prisma.task.update".
UpdateTaskResult(u, t, st, ok) ==
  CASE st = BogusStatus -> <<400, "validation">>
    [] ~ok -> <<500, "Server error">>
    [] t \notin DOMAIN tasks -> <<404, "Task not found">>
    [] /\ role[u] = "problem_solver"
       /\ projects[tasks[t].projectId].assignedSolverId # u ->
         <<403, "Not authorized">>
    [] /\ role[u] = "buyer"
       /\ projects[tasks[t].projectId].buyerId # u -> <<403, "Not authorized">>
    [] OTHER -> <<200, "">>

\* updateData.status: set only when the status is on the caller's allow-list.
UpdateDataStatus(u, st) ==
  CASE role[u] = "problem_solver" /\ st \in SolverAllowList -> st
    [] role[u] = "buyer" /\ st \in BuyerAllowList -> st
    [] OTHER -> NoStatus

\* Validation, findUnique of the task with its project, the ownership checks
\* and the building of updateData.
BeginUpdateTask(h, u, t, st, ok) ==
  LET res == UpdateTaskResult(u, t, st, ok) IN
  /\ Accepts(h)
  /\ t # NoId
  /\ procs' = [procs EXCEPT ![h] =
                 IF res[1] = 200
                   THEN Serving("updateTask", "task_update", u, t,
                                UpdateDataStatus(u, st), NULL)
                   ELSE Done("updateTask", res)]
  /\ UNCHANGED store

\* prisma.task.update({data: updateData}) and the response.
UpdateTaskWrite(h) ==
  LET r == procs[h] IN
  /\ r.pc = "task_update"
  /\ tasks' = IF r.arg # NoStatus THEN TaskUpdateStatus(tasks, r.id, r.arg)
                                  ELSE tasks
  /\ procs' = [procs EXCEPT ![h] =
                 Done("updateTask", <<200, "">>)]
  /\ UNCHANGED <<role, projects, requests, submissions, files>>

(***************************************************************************)
(* POST /api/submissions.  upload.single('file') stores an accepted file   *)
(* under a new name before the handler body runs.                          *)
(***************************************************************************)
\* authorize('problem_solver'), which runs before upload.single.
\* <<0, "">> is "not answered yet".
SubmissionEntryResult(u) ==
  IF Authorize(u, {"problem_solver"}) THEN <<0, "">> ELSE <<403, "role">>

\* fileFilter (its error goes to the error middleware), then the checks of
\* the handler body before its first store call.
SubmissionUploadResult(t, file) ==
  CASE file = "other" -> <<500, "Only ZIP files are allowed">>
    [] t = NoId -> <<400, "validation">>
    [] file = "none" -> <<400, "ZIP file is required">>
    [] OTHER -> <<0, "">>

\* After task.findUnique: the task and the check of the assigned solver.
SubmissionFindResult(u, t) ==
  CASE t \notin DOMAIN tasks -> <<404, "Task not found">>
    [] projects[tasks[t].projectId].assignedSolverId # u ->
         <<403, "Not authorized">>
    [] OTHER -> <<0, "">>

\* fileFilter accepts the file and diskStorage writes it.
Uploaded(file) == file = "zip"

\* The names in use: the files on disk, the files the rows refer to,
\* req.file.path of the submissions in flight and the path a download in
\* flight is about to open.
UsedFiles(fs, ss, pr) ==
  fs \cup {ss[i].filePath : i \in DOMAIN ss}
     \cup {pr[h].arg :
             h \in {g \in Handlers :
                      \/ /\ pr[g].op = "submission"
                         /\ pr[g].pc \notin {"done", "sub_upload"}
                      \/ pr[g].pc = "download_send"}}

HasFreshFile(fs, ss, pr) == (1..MaxFiles) \ UsedFiles(fs, ss, pr) # {}

\* storage.filename: submission-<Date.now()>-<random>, a name that no upload
\* has had.  Names no longer in use are interchangeable, the least is taken.
FreshFile(fs, ss, pr) ==
  CHOOSE f \in (1..MaxFiles) \ UsedFiles(fs, ss, pr) :
    \A g \in (1..MaxFiles) \ UsedFiles(fs, ss, pr) : f <= g

\* The request is dispatched: authorize reads the role, then upload.single
\* starts to read the body.  arg is the kind of file the request carries.
BeginSubmission(h, u, t, file) ==
  LET res == SubmissionEntryResult(u) IN
  /\ Accepts(h)
  /\ procs' = [procs EXCEPT ![h] =
                 IF res[1] = 0
                   THEN Serving("submission", "sub_upload", u, t, file, NULL)
                   ELSE Done("submission", res)]
  /\ UNCHANGED store

\* upload.single('file') has stored an accepted file, some turns of the
\* event loop after the dispatch, and the handler body runs up to its first
\* await: a 400 of the validation leaves the file on disk.  From here arg is
\* req.file.path.
SubmissionUpload(h) ==
  LET r == procs[h]
      res == SubmissionUploadResult(r.id, r.arg)
      up == Uploaded(r.arg)
      f == FreshFile(files, submissions, procs) IN
  /\ r.pc = "sub_upload"
  /\ up => HasFreshFile(files, submissions, procs)
  /\ files' = IF up THEN files \cup {f} ELSE files
  /\ procs' = [procs EXCEPT ![h] =
                 IF res[1] = 0
                   THEN [r EXCEPT !.pc = "sub_find", !.arg = f]
                   ELSE Done("submission", res)]
  /\ UNCHANGED <<role, projects, requests, tasks, submissions>>

\* prisma.task.findUnique with its project, and the check of the assigned
\* solver: a 404 or a 403 unlinks the uploaded file.
SubmissionFindTask(h) ==
  LET r == procs[h]
      res == SubmissionFindResult(r.actor, r.id) IN
  /\ r.pc = "sub_find"
  /\ files' = IF res[1] = 0 THEN files ELSE Unlink(files, r.arg)
  /\ procs' = [procs EXCEPT ![h] =
                 IF res[1] = 0
                   THEN [r EXCEPT !.pc = "sub_check"]
                   ELSE Done("submission", res)]
  /\ UNCHANGED <<role, projects, requests, tasks, submissions>>

\* prisma.submission.findUnique({taskId}); when a row exists its file is
\* unlinked before the next await.
SubmissionCheck(h) ==
  LET r == procs[h] IN
  /\ r.pc = "sub_check"
  /\ IF SubmissionOf(submissions, r.id) # {}
       THEN LET i == CHOOSE j \in SubmissionOf(submissions, r.id) : TRUE IN
            /\ files' = Unlink(files, submissions[i].filePath)
            /\ procs' = [procs EXCEPT ![h].pc = "sub_update"]
       ELSE /\ files' = files
            /\ procs' = [procs EXCEPT ![h].pc = "sub_create"]
  /\ UNCHANGED <<role, projects, requests, tasks, submissions>>

\* prisma.submission.update({where: {taskId}}).
SubmissionUpdate(h) ==
  LET r == procs[h]
      i == CHOOSE j \in SubmissionOf(submissions, r.id) : TRUE IN
  /\ r.pc = "sub_update"
  /\ submissions' = SubmissionReplace(submissions, i, r.arg)
  /\ procs' = [procs EXCEPT ![h].pc = "sub_task_replaced"]
  /\ UNCHANGED <<role, projects, requests, tasks, files>>

\* prisma.submission.create; a refusal by the unique index is thrown into
\* the catch block, which unlinks the new file and answers 500.
SubmissionInsert(h) ==
  LET r == procs[h] IN
  /\ r.pc = "sub_create"
  /\ IF SubmissionUniqueViolation(submissions, r.id)
       THEN /\ submissions' = submissions
            /\ files' = Unlink(files, r.arg)
            /\ procs' = [procs EXCEPT ![h] =
                           Done("submission", <<500, "Server error">>)]
       ELSE /\ submissions' = SubmissionCreate(submissions, r.id,
                                               tasks[r.id].projectId, r.actor, r.arg)
            /\ files' = files
            /\ procs' = [procs EXCEPT ![h].pc = "sub_task_created"]
  /\ UNCHANGED <<role, projects, requests, tasks>>

\* prisma.task.update({status: 'submitted'}) and the response.
SubmissionTaskUpdate(h) ==
  LET r == procs[h] IN
  /\ r.pc \in {"sub_task_replaced", "sub_task_created"}
  /\ tasks' = TaskUpdateStatus(tasks, r.id, "submitted")
  /\ procs' = [procs EXCEPT ![h] =
                 Done("submission", IF r.pc = "sub_task_replaced"
                        THEN <<200, "Submission updated successfully">>
                        ELSE <<201, "Submission created successfully">>)]
  /\ UNCHANGED <<role, projects, requests, submissions, files>>

(***************************************************************************)
(* PUT /api/submissions/:id/review                                         *)
(***************************************************************************)
\* Up to the ownership check; <<200, "">> is "goes on to
\* prisma.submission.update".
ReviewResult(u, i, st, ok) ==
  CASE ~Authorize(u, {"buyer"}) -> <<403, "role">>
    [] st \notin {"accepted", "rejected"} -> <<400, "validation">>
    [] ~ok -> <<500, "Server error">>
    [] i \notin DOMAIN submissions -> <<404, "Submission not found">>
    [] projects[submissions[i].projectId].buyerId # u -> <<403, "Not authorized">>
    [] OTHER -> <<200, "">>

\* The role, validation, findUnique of the submission with its project and
\* the ownership check.
BeginReview(h, u, i, st, ok) ==
  LET res == ReviewResult(u, i, st, ok) IN
  /\ Accepts(h)
  /\ procs' = [procs EXCEPT ![h] =
                 IF res[1] = 200
                   THEN Serving("review", "review_submission", u, i, st,
                                NULL)
                   ELSE Done("review", res)]
  /\ UNCHANGED store

\* prisma.submission.update({status}).
ReviewUpdateSubmission(h) ==
  LET r == procs[h] IN
  /\ r.pc = "review_submission"
  /\ submissions' = SubmissionUpdateStatus(submissions, r.id, r.arg)
  /\ procs' = [procs EXCEPT ![h].pc = "review_task"]
  /\ UNCHANGED <<role, projects, requests, tasks, files>>

\* res.json({message: `Submission ${status} successfully`}).
ReviewAnswer(st) ==
  <<200, IF st = "accepted" THEN "Submission accepted successfully"
                            ELSE "Submission rejected successfully">>

\* prisma.task.update: completed on accepted, rejected on rejected (which
\* ends the handler).
ReviewUpdateTask(h) ==
  LET r == procs[h]
      t == submissions[r.id].taskId IN
  /\ r.pc = "review_task"
  /\ tasks' = TaskUpdateStatus(tasks, t,
                 IF r.arg = "accepted" THEN "completed" ELSE "rejected")
  /\ procs' = [procs EXCEPT ![h] =
                 IF r.arg = "accepted"
                   THEN [r EXCEPT !.pc = "review_find"]
                   ELSE Done("review", ReviewAnswer(r.arg))]
  /\ UNCHANGED <<role, projects, requests, submissions, files>>

\* prisma.task.findMany({projectId}) and the test of allCompleted.
ReviewFindTasks(h) ==
  LET r == procs[h] IN
  /\ r.pc = "review_find"
  /\ procs' = [procs EXCEPT ![h] =
                 IF AllCompleted(tasks, submissions[r.id].projectId)
                   THEN [r EXCEPT !.pc = "review_project"]
                   ELSE Done("review", ReviewAnswer(r.arg))]
  /\ UNCHANGED store

\* prisma.project.update({status: 'completed'}) and the response.
ReviewUpdateProject(h) ==
  LET r == procs[h] IN
  /\ r.pc = "review_project"
  /\ projects' = ProjectUpdateStatus(projects, submissions[r.id].projectId,
                                     "completed")
  /\ procs' = [procs EXCEPT ![h] =
                 Done("review", ReviewAnswer(r.arg))]
  /\ UNCHANGED <<role, requests, tasks, submissions, files>>

(***************************************************************************)
(* PUT /api/users/:id/assign-buyer: one store call, prisma.user.update;    *)
(* P2025 (no such row) is answered with 404, another rejection with 500.    *)
(***************************************************************************)
AssignBuyerResult(u, target, ok) ==
  CASE ~Authorize(u, {"admin"}) -> <<403, "role">>
    [] ~ok -> <<500, "Server error">>
    [] target \notin Users -> <<404, "User not found">>
    [] OTHER -> <<200, "Buyer role assigned successfully">>

AssignBuyer(h, u, target, ok) ==
  LET res == AssignBuyerResult(u, target, ok) IN
  /\ Accepts(h)
  /\ role' = IF res[1] = 200 THEN [role EXCEPT ![target] = "buyer"] ELSE role
  /\ procs' = [procs EXCEPT ![h] =
                 Done("assignBuyer", res)]
  /\ UNCHANGED <<projects, requests, tasks, submissions, files>>

(***************************************************************************)
(* The read routes.  Each answers from the store and changes nothing.      *)
(***************************************************************************)
\* GET /api/projects/:id, up to the ownership check.
GetProjectResult(u, p, ok) ==
  CASE ~ok -> <<500, "Server error">>
    [] ~ProjectExists(projects, p) -> <<404, "Project not found">>
    [] role[u] = "buyer" /\ projects[p].buyerId # u -> <<403, "Not authorized">>
    [] OTHER -> <<200, "">>

\* GET /api/requests/project/:projectId, up to the ownership check.
GetRequestsByProjectResult(u, p, ok) ==
  CASE ~ok -> <<500, "Server error">>
    [] ~ProjectExists(projects, p) -> <<404, "Project not found">>
    [] role[u] = "buyer" /\ projects[p].buyerId # u -> <<403, "Not authorized">>
    [] OTHER -> <<200, "">>

\* GET /api/tasks/project/:projectId, up to the access checks.
GetTasksByProjectResult(u, p, ok) ==
  CASE ~ok -> <<500, "Server error">>
    [] ~ProjectExists(projects, p) -> <<404, "Project not found">>
    [] role[u] = "buyer" /\ projects[p].buyerId # u -> <<403, "Not authorized">>
    [] role[u] = "problem_solver" /\ projects[p].assignedSolverId # u ->
         <<403, "Not authorized">>
    [] OTHER -> <<200, "">>

\* GET /api/tasks/:id
GetTaskResult(u, t, ok) ==
  CASE ~ok -> <<500, "Server error">>
    [] t \notin DOMAIN tasks -> <<404, "Task not found">>
    [] OTHER -> <<200, "">>

\* GET /api/submissions/task/:taskId, up to the access checks.
GetSubmissionByTaskResult(u, t, ok) ==
  CASE ~ok -> <<500, "Server error">>
    [] t \notin DOMAIN tasks -> <<404, "Task not found">>
    [] role[u] = "buyer" /\ projects[tasks[t].projectId].buyerId # u ->
         <<403, "Not authorized">>
    [] /\ role[u] = "problem_solver"
       /\ projects[tasks[t].projectId].assignedSolverId # u ->
         <<403, "Not authorized">>
    [] OTHER -> <<200, "">>

\* GET /api/submissions/:id/download
DownloadResult(u, i, ok) ==
  CASE ~ok -> <<500, "Server error">>
    [] i \notin DOMAIN submissions -> <<404, "Submission not found">>
    [] role[u] = "buyer" /\ projects[submissions[i].projectId].buyerId # u ->
         <<403, "Not authorized">>
    [] role[u] = "problem_solver" /\ submissions[i].solverId # u ->
         <<403, "Not authorized">>
    [] submissions[i].filePath \notin files -> <<404, "File not found">>
    [] OTHER -> <<200, "">>

\* A read route up to its first findUnique and its access checks: it answers
\* res, or goes on to the store call at pc.
BeginRead(h, op, pc, u, id, arg, res) ==
  /\ Accepts(h)
  /\ procs' = [procs EXCEPT ![h] =
                 IF res[1] = 200 THEN Serving(op, pc, u, id, arg, NULL)
                                 ELSE Done(op, res)]
  /\ UNCHANGED store

\* A later findMany or findUnique of a read route: the handler goes on to
\* the store call at pc.
ReadOn(h, at, pc) ==
  /\ procs[h].pc = at
  /\ procs' = [procs EXCEPT ![h].pc = pc]
  /\ UNCHANGED store

\* The last store call of a read route and its response.
ReadAnswer(h, at, res) ==
  /\ procs[h].pc = at
  /\ procs' = [procs EXCEPT ![h] = Done(procs[h].op, res)]
  /\ UNCHANGED store

\* arg is project.assignedSolverId as findUnique returned it.
BeginGetProject(h, u, p, ok) ==
  BeginRead(h, "getProject", "project_requests", u, p,
            IF ProjectExists(projects, p) THEN projects[p].assignedSolverId
                                          ELSE NULL,
            GetProjectResult(u, p, ok))

\* prisma.request.findMany; the tasks are read only when the project read at
\* entry had an assigned solver.
GetProjectRequests(h) ==
  IF procs[h].pc = "project_requests" /\ procs[h].arg = NULL
    THEN ReadAnswer(h, "project_requests", <<200, "">>)
    ELSE ReadOn(h, "project_requests", "project_tasks")

\* prisma.task.findMany and the response.
GetProjectTasks(h) == ReadAnswer(h, "project_tasks", <<200, "">>)

BeginGetRequestsByProject(h, u, p, ok) ==
  BeginRead(h, "getRequestsByProject", "requests_list", u, p, NULL,
            GetRequestsByProjectResult(u, p, ok))

\* prisma.request.findMany and the response.
GetRequestsByProjectList(h) == ReadAnswer(h, "requests_list", <<200, "">>)

BeginGetTasksByProject(h, u, p, ok) ==
  BeginRead(h, "getTasksByProject", "tasks_list", u, p, NULL,
            GetTasksByProjectResult(u, p, ok))

\* prisma.task.findMany and the response.
GetTasksByProjectList(h) == ReadAnswer(h, "tasks_list", <<200, "">>)

\* One store call, prisma.task.findUnique.
GetTask(h, u, t, ok) ==
  /\ Accepts(h)
  /\ procs' = [procs EXCEPT ![h] =
                 LET res == GetTaskResult(u, t, ok) IN
                 Done("getTask", res)]
  /\ UNCHANGED store

BeginGetSubmissionByTask(h, u, t, ok) ==
  BeginRead(h, "getSubmissionByTask", "submission_find", u, t, NULL,
            GetSubmissionByTaskResult(u, t, ok))

\* prisma.submission.findUnique({taskId}): its include gives relation task
\* both select and include, a query Prisma refuses, so the call rejects
\* whatever the store holds and the catch block answers 500.
GetSubmissionByTaskFind(h) ==
  ReadAnswer(h, "submission_find", <<500, "Server error">>)

\* prisma.submission.findUnique, the access checks and fs.existsSync; arg is
\* submission.filePath as findUnique returned it.
BeginDownload(h, u, i, ok) ==
  BeginRead(h, "download", "download_send", u, i,
            IF i \in DOMAIN submissions THEN submissions[i].filePath
                                        ELSE NULL,
            DownloadResult(u, i, ok))

\* res.download(submission.filePath) opens the file after the handler has
\* returned: a file unlinked since fs.existsSync ends in the error
\* middleware, which answers err.status = 404.
DownloadSend(h) ==
  ReadAnswer(h, "download_send",
             IF procs[h].arg \in files THEN <<200, "">>
                                       ELSE <<404, "ENOENT">>)

\* The client has read the response of slot h: the slot is free again.
Close(h) ==
  /\ procs[h].pc = "done"
  /\ procs' = [procs EXCEPT ![h] = Idle]
  /\ UNCHANGED store

(***************************************************************************)
(* The steps of each route, for the callers US, the ids PS, TS, IS of      *)
(* projects, tasks and submissions, the solver ids SS and the store        *)
(* outcomes OK (TRUE: the first store call resolves; FALSE: it rejects).   *)
(* A request is taken whenever a slot is free, whatever the other slot is  *)
(* doing.                                                                  *)
(***************************************************************************)
ProjectSteps(US, OK) ==
  \E h \in Handlers, u \in US, valid \in BOOLEAN, ok \in OK :
    CreateProject(h, u, valid, ok)

RequestSteps(US, PS, OK) ==
  \/ \E h \in Handlers, u \in US, p \in PS, ok \in OK :
       BeginCreateRequest(h, u, p, ok)
  \/ \E h \in Handlers : CreateRequestCheck(h)
  \/ \E h \in Handlers : CreateRequestInsert(h)

AssignSteps(US, PS, SS, OK) ==
  \/ \E h \in Handlers, u \in US, p \in PS, s \in SS, ok \in OK :
       BeginAssign(h, u, p, s, ok)
  \/ \E h \in Handlers : AssignUpdateProject(h)
  \/ \E h \in Handlers : AssignAcceptRequest(h)
  \/ \E h \in Handlers : AssignRejectOthers(h)

CreateTaskSteps(US, PS, OK) ==
  \/ \E h \in Handlers, u \in US, p \in PS, valid \in BOOLEAN, ok \in OK :
       BeginCreateTask(h, u, p, valid, ok)
  \/ \E h \in Handlers : CreateTaskInsert(h)
  \/ \E h \in Handlers : CreateTaskUpdateProject(h)

UpdateTaskSteps(US, TS, STS, OK) ==
  \/ \E h \in Handlers, u \in US, t \in TS, st \in STS, ok \in OK :
       BeginUpdateTask(h, u, t, st, ok)
  \/ \E h \in Handlers : UpdateTaskWrite(h)

SubmissionSteps(US, TS, FS) ==
  \/ \E h \in Handlers, u \in US, t \in TS, file \in FS :
       BeginSubmission(h, u, t, file)
  \/ \E h \in Handlers : SubmissionUpload(h)
  \/ \E h \in Handlers : SubmissionFindTask(h)
  \/ \E h \in Handlers : SubmissionCheck(h)
  \/ \E h \in Handlers : SubmissionUpdate(h)
  \/ \E h \in Handlers : SubmissionInsert(h)
  \/ \E h \in Handlers : SubmissionTaskUpdate(h)

ReviewSteps(US, IS, DS, OK) ==
  \/ \E h \in Handlers, u \in US, i \in IS, st \in DS, ok \in OK :
       BeginReview(h, u, i, st, ok)
  \/ \E h \in Handlers : ReviewUpdateSubmission(h)
  \/ \E h \in Handlers : ReviewUpdateTask(h)
  \/ \E h \in Handlers : ReviewFindTasks(h)
  \/ \E h \in Handlers : ReviewUpdateProject(h)

AssignBuyerSteps(US, TS, OK) ==
  \E h \in Handlers, u \in US, target \in TS, ok \in OK :
    AssignBuyer(h, u, target, ok)

ReadSteps(US, PS, TS, IS, OK) ==
  \/ \E h \in Handlers, u \in US, p \in PS, ok \in OK :
       BeginGetProject(h, u, p, ok)
  \/ \E h \in Handlers : GetProjectRequests(h)
  \/ \E h \in Handlers : GetProjectTasks(h)
  \/ \E h \in Handlers, u \in US, p \in PS, ok \in OK :
       BeginGetRequestsByProject(h, u, p, ok)
  \/ \E h \in Handlers : GetRequestsByProjectList(h)
  \/ \E h \in Handlers, u \in US, p \in PS, ok \in OK :
       BeginGetTasksByProject(h, u, p, ok)
  \/ \E h \in Handlers : GetTasksByProjectList(h)
  \/ \E h \in Handlers, u \in US, t \in TS, ok \in OK :
       GetTask(h, u, t, ok)
  \/ \E h \in Handlers, u \in US, t \in TS, ok \in OK :
       BeginGetSubmissionByTask(h, u, t, ok)
  \/ \E h \in Handlers : GetSubmissionByTaskFind(h)
  \/ \E h \in Handlers, u \in US, i \in IS, ok \in OK :
       BeginDownload(h, u, i, ok)
  \/ \E h \in Handlers : DownloadSend(h)

\* The awaited store call before which some handler stands rejects.
Failures == \E h \in Handlers : StoreFailure(h)

\* The response of some slot has been read.
Closes == \E h \in Handlers : Close(h)

(***************************************************************************)
(* Inputs of the specifications.                                           *)
(***************************************************************************)
\* The first store call of a request resolves or rejects.
AnyStore == {TRUE, FALSE}
\* The buyer and the solver of the project.
RaceUsers == {"b1", "s1"}
\* With a second solver.
CoreUsers == {"b1", "s1", "s2"}
\* With a second solver and a buyer who does not own the project.
PeerUsers == {"b1", "b2", "s1", "s2"}
\* Id 1 alone: the row is missing until it is created.
OnlyId == 1..1
\* A missing body field, the row and a missing row.
OneProject == NoId..2
OneTask == NoId..2
OneSubmission == 1..2

(***************************************************************************)
(* Spec: every write route, from the empty store.                          *)
(***************************************************************************)
Next ==
  \/ ProjectSteps(RaceUsers, AnyStore)
  \/ RequestSteps(RaceUsers, OnlyId, AnyStore)
  \/ AssignSteps(RaceUsers, OnlyId, {"s1"}, AnyStore)
  \/ CreateTaskSteps(RaceUsers, OnlyId, AnyStore) /\ Len(tasks') <= MaxTasksSpec
  \/ UpdateTaskSteps(RaceUsers, OnlyId, {"completed"}, AnyStore)
  \/ SubmissionSteps(RaceUsers, OnlyId, {"zip"})
  \/ ReviewSteps(RaceUsers, OnlyId, {"accepted"}, AnyStore)
  \/ AssignBuyerSteps({"a1", "b1"}, {"a1", GhostUser}, AnyStore)
  \/ Failures
  \/ Closes

Spec == Init /\ [][Next]_vars

(***************************************************************************)
(* SpecAssign: an open project of b1 that s1 has requested.                *)
(***************************************************************************)
InitAssign ==
  /\ role = InitialRole
  /\ projects = ProjectCreate(<<>>, "b1")
  /\ requests = RequestCreate(<<>>, 1, "s1")
  /\ tasks = <<>>
  /\ submissions = <<>>
  /\ files = {}
  /\ procs = [h \in Handlers |-> Idle]

NextAssign ==
  \/ AssignSteps(Users, OneProject, SolverIdInputs, AnyStore)
  \/ RequestSteps(Users, OneProject, AnyStore)
  \/ Failures
  \/ Closes

SpecAssign == InitAssign /\ [][NextAssign]_vars

(***************************************************************************)
(* SpecCreate: the assignment and POST /api/tasks, up to MaxTasks tasks.   *)
(***************************************************************************)
NextCreate ==
  \/ AssignSteps(Users, OneProject, SolverIdInputs, AnyStore)
  \/ CreateTaskSteps(Users, OneProject, AnyStore)
  \/ Failures
  \/ Closes

SpecCreate == InitAssign /\ [][NextCreate]_vars

(***************************************************************************)
(* SpecUsers: the assignment and PUT /api/users/:id/assign-buyer.          *)
(***************************************************************************)
NextUsers ==
  \/ AssignSteps(Users, OneProject, SolverIdInputs, AnyStore)
  \/ AssignBuyerSteps(Users, UserIdInputs, AnyStore)
  \/ Failures
  \/ Closes

SpecUsers == InitAssign /\ [][NextUsers]_vars

(***************************************************************************)
(* SpecRace: a project assigned to s1; POST /api/tasks, the submission and *)
(* the review, one task.                                                   *)
(***************************************************************************)
InitTasks ==
  /\ role = InitialRole
  /\ projects = ProjectUpdateAssign(ProjectCreate(<<>>, "b1"), 1, "s1")
  /\ requests = RequestsAccept(RequestCreate(<<>>, 1, "s1"), 1, "s1")
  /\ tasks = <<>>
  /\ submissions = <<>>
  /\ files = {}
  /\ procs = [h \in Handlers |-> Idle]

NextRace ==
  \/ CreateTaskSteps(RaceUsers, OneProject, AnyStore)
       /\ Len(tasks') <= MaxTasksSpec
  \/ SubmissionSteps(RaceUsers, OneTask, FileInputs)
  \/ ReviewSteps(RaceUsers, OneSubmission, ReviewInputs, AnyStore)
  \/ Failures
  \/ Closes

SpecRace == InitTasks /\ [][NextRace]_vars

(***************************************************************************)
(* SpecReject: the routes that check who owns the project or is assigned to*)
(* it, called by its buyer, its solver, another buyer and another solver.  *)
(***************************************************************************)
NextReject ==
  \/ AssignSteps(PeerUsers, OneProject, {"s1", EmptyField}, AnyStore)
  \/ CreateTaskSteps(PeerUsers, OneProject, AnyStore)
       /\ Len(tasks') <= MaxTasksSpec
  \/ UpdateTaskSteps(PeerUsers, OneTask, {"completed", BogusStatus}, AnyStore)
  \/ SubmissionSteps(PeerUsers, OneTask, {"zip"})
  \/ ReviewSteps(PeerUsers, OneSubmission, ReviewInputs, AnyStore)
  \/ Failures
  \/ Closes

SpecReject == InitTasks /\ [][NextReject]_vars

(***************************************************************************)
(* SpecSubmit: a project in progress with one pending task; the submission *)
(* and the review.                                                         *)
(***************************************************************************)
InitSubmit ==
  /\ role = InitialRole
  /\ projects = ProjectUpdateStatus(
                  ProjectUpdateAssign(ProjectCreate(<<>>, "b1"), 1, "s1"),
                  1, "in_progress")
  /\ requests = RequestsAccept(RequestCreate(<<>>, 1, "s1"), 1, "s1")
  /\ tasks = TaskCreate(<<>>, 1)
  /\ submissions = <<>>
  /\ files = {}
  /\ procs = [h \in Handlers |-> Idle]

NextSubmit ==
  \/ SubmissionSteps(Users, OneTask, FileInputs)
  \/ ReviewSteps(Users, OneSubmission, ReviewInputs, AnyStore)
  \/ Failures
  \/ Closes

SpecSubmit == InitSubmit /\ [][NextSubmit]_vars

(***************************************************************************)
(* SpecUpdate: PUT /api/tasks/:id with the submission and the review.      *)
(***************************************************************************)
NextUpdate ==
  \/ UpdateTaskSteps(RaceUsers, OneTask, StatusInputs, AnyStore)
  \/ SubmissionSteps(RaceUsers, OneTask, FileInputs)
  \/ ReviewSteps(RaceUsers, OneSubmission, ReviewInputs, AnyStore)
  \/ Failures
  \/ Closes

SpecUpdate == InitSubmit /\ [][NextUpdate]_vars

(***************************************************************************)
(* SpecReassign: the assignment with the submission, two solvers.          *)
(***************************************************************************)
NextReassign ==
  \/ AssignSteps(CoreUsers, OnlyId, {"s1", "s2"}, AnyStore)
  \/ SubmissionSteps(CoreUsers, OneTask, {"zip"})
  \/ Failures
  \/ Closes

SpecReassign == InitSubmit /\ [][NextReassign]_vars

(***************************************************************************)
(* SpecReview: a project in progress with two submitted tasks; the review. *)
(***************************************************************************)
InitReview ==
  /\ role = InitialRole
  /\ projects = ProjectUpdateStatus(
                  ProjectUpdateAssign(ProjectCreate(<<>>, "b1"), 1, "s1"),
                  1, "in_progress")
  /\ requests = RequestsAccept(RequestCreate(<<>>, 1, "s1"), 1, "s1")
  /\ tasks = TaskUpdateStatus(
               TaskUpdateStatus(TaskCreate(TaskCreate(<<>>, 1), 1),
                                1, "submitted"),
               2, "submitted")
  /\ submissions = SubmissionCreate(SubmissionCreate(<<>>, 1, 1, "s1", 1),
                                    2, 1, "s1", 2)
  /\ files = {1, 2}
  /\ procs = [h \in Handlers |-> Idle]

NextReview ==
  \/ ReviewSteps(Users, SubmissionIdInputs, ReviewInputs, AnyStore)
  \/ Failures
  \/ Closes

SpecReview == InitReview /\ [][NextReview]_vars

(***************************************************************************)
(* SpecReads: a project in progress with one pending task; the read routes,*)
(* and the assigned solver submitting and submitting again, which unlinks  *)
(* the file a download may be sending.                                     *)
(***************************************************************************)
NextReads ==
  \/ ReadSteps(Users, OneProject, OneTask, OneSubmission, AnyStore)
  \/ SubmissionSteps({"s1"}, OnlyId, {"zip"})
  \/ Failures
  \/ Closes

SpecReads == InitSubmit /\ [][NextReads]_vars

(***************************************************************************)
(* Properties.                                                             *)
(***************************************************************************)
RequestsWithStatus(rs, p, st) == {i \in RequestsOf(rs, p) : rs[i].status = st}

\* Handler h answers in this step.
Answers(h) == procs[h].pc # "done" /\ procs'[h].pc = "done"

\* Slot h takes a request of route op in this step.
Begins(h, op) == procs[h] = Idle /\ procs'[h].op = op

\* Handler h of route op is between two of its store calls.
Serves(h, op) == InFlight(h) /\ procs[h].op = op

\* Handler h goes from the await at pc to the await at next in this step.
Moves(h, pc, next) == procs[h].pc = pc /\ procs'[h].pc = next

\* No request is being served.
Quiescent == \A h \in Handlers : Free(h)

\* C1: in every state reached by any interleaving of the handlers, the
\* states between their store calls and after a failed store call included,
\* a project has status open if and only if its assignedSolverId is unset.
C1_OpenIffUnassigned ==
  \A p \in DOMAIN projects :
    (projects[p].status = "open") <=> (projects[p].assignedSolverId = NULL)

C1_Witness ==
  \E p \in DOMAIN projects :
    /\ projects[p].status = "completed"
    /\ projects[p].assignedSolverId # NULL
    /\ RequestsOf(requests, p) # {}
    /\ \E i \in DOMAIN submissions : submissions[i].projectId = p

\* C2: the three writes of assignSolver(P, S): the first leaves P assigned
\* to S, the second accepts the request of S, the third rejects every other
\* request of P and answers 200; when the first two writes are still in place
\* at the third, P is then assigned to S with one accepted request, that of
\* S, N-1 rejected requests and none pending.
C2_AssignAcceptsOneRejectsRest ==
  [][\A h \in Handlers :
       Serves(h, "assignSolver") =>
         LET p == procs[h].project
             s == procs[h].solver IN
         /\ Moves(h, "assign_update", "assign_accept") =>
              /\ projects'[p].status = "assigned"
              /\ projects'[p].assignedSolverId = s
              /\ requests' = requests
         /\ Moves(h, "assign_accept", "assign_reject") =>
              /\ projects' = projects
              /\ DOMAIN requests' = DOMAIN requests
              /\ \A i \in DOMAIN requests :
                   requests'[i].status =
                     IF requests[i].projectId = p /\ requests[i].solverId = s
                       THEN "accepted" ELSE requests[i].status
         /\ (Moves(h, "assign_reject", "done") /\ procs'[h].code = 200) =>
              /\ projects' = projects
              /\ DOMAIN requests' = DOMAIN requests
              /\ \A i \in DOMAIN requests :
                   requests'[i].status =
                     IF requests[i].projectId = p /\ requests[i].solverId # s
                       THEN "rejected" ELSE requests[i].status
              /\ ( /\ projects[p].status = "assigned"
                   /\ projects[p].assignedSolverId = s
                   /\ \E i \in RequestsOf(requests, p) :
                        /\ requests[i].solverId = s
                        /\ requests[i].status = "accepted" )
                 => /\ projects'[p].status = "assigned"
                    /\ projects'[p].assignedSolverId = s
                    /\ Cardinality(RequestsWithStatus(requests', p, "accepted")) = 1
                    /\ Cardinality(RequestsWithStatus(requests', p, "rejected")) =
                         Cardinality(RequestsOf(requests, p)) - 1
                    /\ RequestsWithStatus(requests', p, "pending") = {}]_vars

C2_Witness ==
  /\ procs[1].op = "assignSolver" /\ procs[1].pc = "done"
  /\ procs[1].code = 200
  /\ procs[2] = Idle
  /\ \E p \in DOMAIN projects :
       /\ projects[p].status = "assigned"
       /\ Cardinality(RequestsWithStatus(requests, p, "accepted")) = 1
       /\ Cardinality(RequestsWithStatus(requests, p, "rejected")) >= 1
       /\ RequestsWithStatus(requests, p, "pending") = {}
       /\ \E i \in RequestsWithStatus(requests, p, "accepted") :
            requests[i].solverId = projects[p].assignedSolverId

\* C3: no state, between the writes of assignSolver or after a failure of
\* one, and under any interleaving of assignSolver calls, has two accepted
\* requests for the same project.
C3_AtMostOneAccepted ==
  \A p \in DOMAIN projects :
    Cardinality(RequestsWithStatus(requests, p, "accepted")) <= 1

\* C4: no state shows a project already assigned to S while the request of S
\* is not accepted or another request of the project is still pending.
C4_AssignAllOrNothing ==
  \A p \in DOMAIN projects :
    ( /\ projects[p].status = "assigned"
      /\ RequestExists(requests, p, projects[p].assignedSolverId) ) =>
      \A i \in RequestsOf(requests, p) :
        IF requests[i].solverId = projects[p].assignedSolverId
          THEN requests[i].status = "accepted"
          ELSE requests[i].status # "pending"

\* C5: assignSolver by the owning buyer on a project that is not open is
\* rejected when it has read the project, before any write.
C5_AssignRejectedUnlessOpen ==
  [][(\E g \in Handlers : Begins(g, "assignSolver")) =>
     \A h \in Handlers, u \in Users, p \in ProjectIdInputs,
        s \in SolverIdInputs, ok \in BOOLEAN :
       ( /\ BeginAssign(h, u, p, s, ok)
         /\ ProjectExists(projects, p)
         /\ role[u] = "buyer" /\ projects[p].buyerId = u
         /\ projects[p].status # "open" )
       => (procs'[h].pc = "done" /\ procs'[h].code >= 400)]_vars

\* C6: assignSolver(P, S) is rejected when it has read the project and no
\* request for (P, S) exists, before any write; no project is ever assigned
\* to a user who has no request for it.
C6_AssignRejectedWithoutRequest ==
  [][/\ (\E g \in Handlers : Begins(g, "assignSolver")) =>
        \A h \in Handlers, u \in Users, p \in ProjectIdInputs,
           s \in SolverIdInputs, ok \in BOOLEAN :
          ( /\ BeginAssign(h, u, p, s, ok)
            /\ ProjectExists(projects, p)
            /\ ~RequestExists(requests, p, s) )
          => (procs'[h].pc = "done" /\ procs'[h].code >= 400)
     /\ \A q \in DOMAIN projects' :
          projects'[q].assignedSolverId # NULL =>
            RequestExists(requests', q, projects'[q].assignedSolverId)]_vars

UniquePairs(rs) ==
  \A i, j \in DOMAIN rs :
    (rs[i].projectId = rs[j].projectId /\ rs[i].solverId = rs[j].solverId)
      => i = j

\* C7: every state holds at most one request per (project, solver), and a
\* createRequest that reaches its existence check or its insert while a
\* request of the pair exists answers 400 "Request already exists" and
\* creates nothing, under every interleaving.
C7_UniqueRequestPerPair ==
  [][/\ UniquePairs(requests')
     /\ \A h \in Handlers :
          ( /\ Serves(h, "createRequest")
            /\ Answers(h)
            /\ RequestExists(requests, procs[h].project, procs[h].actor) )
          => ( /\ requests' = requests
               /\ procs'[h].code # 201
               /\ ~StoreFailure(h) =>
                    /\ procs'[h].code = 400
                    /\ procs'[h].msg = "Request already exists" )]_vars

C7_Witness ==
  \E h, g \in Handlers :
    /\ procs[h].op = "createRequest" /\ procs[h].pc = "request_insert"
    /\ procs[h].actor = "s2"
    /\ RequestExists(requests, procs[h].project, "s2")
    /\ procs[g].op = "createRequest" /\ procs[g].pc = "done"
    /\ procs[g].code = 201
    /\ UniquePairs(requests)

\* C8: a request row is inserted only while its project has status open, under
\* every interleaving of createRequest with assignSolver.
C8_RequestInsertedOnlyWhileOpen ==
  [][Len(requests') > Len(requests) =>
       projects[requests'[Len(requests')].projectId].status = "open"]_vars

\* C9: once the status of a request is accepted or rejected, no operation
\* changes it.
C9_RequestStatusTerminal ==
  [][\A i \in DOMAIN requests :
       requests[i].status \in {"accepted", "rejected"} =>
         requests'[i].status = requests[i].status]_vars

\* C10: createTask by a problem solver on a project whose assignedSolverId is
\* unset or is not the caller is answered when it has read the project (400
\* when unset, 403 Forbidden when someone else is assigned, 500 when the read
\* fails), creates no task and leaves the project as it was.
C10_CreateTaskOnlyByAssignedSolver ==
  [][(\E g \in Handlers : Begins(g, "createTask")) =>
     \A h \in Handlers, u \in Users, p \in ProjectIdInputs, valid \in BOOLEAN,
        ok \in BOOLEAN :
       ( /\ BeginCreateTask(h, u, p, valid, ok)
         /\ role[u] = "problem_solver"
         /\ ProjectExists(projects, p)
         /\ projects[p].assignedSolverId # u )
       => ( /\ procs'[h].pc = "done"
            /\ procs'[h].code \in {400, 403, 500}
            /\ (valid /\ ok /\ projects[p].assignedSolverId # NULL) =>
                 procs'[h].code = 403
            /\ (valid /\ ok /\ projects[p].assignedSolverId = NULL) =>
                 procs'[h].code = 400
            /\ tasks' = tasks
            /\ projects' = projects )]_vars

C10_Witness ==
  /\ procs[1].op = "createTask" /\ procs[1].pc = "done" /\ procs[1].code = 403
  /\ procs[1].msg = "Not authorized to create tasks for this project"
  /\ procs[2] = Idle
  /\ tasks = <<>>
  /\ \E p \in DOMAIN projects :
       /\ projects[p].status = "assigned"
       /\ role[projects[p].assignedSolverId] = "problem_solver"

\* C11: a createTask that passed its checks remembers the project status it
\* read; its insert adds one task with status pending and changes no project;
\* it then writes in_progress to the project if and only if the status it
\* read was assigned, and otherwise answers 201 with the project untouched.
C11_CreateTaskStartsProject ==
  [][\A h \in Handlers :
       /\ (Begins(h, "createTask") /\ procs'[h].pc = "task_insert") =>
            procs'[h].was = projects[procs'[h].id].status
       /\ Serves(h, "createTask") =>
            LET p == procs[h].id IN
            /\ CreateTaskInsert(h) =>
                 /\ Len(tasks') = Len(tasks) + 1
                 /\ tasks'[Len(tasks')] = [projectId |-> p, status |-> "pending"]
                 /\ \A t \in DOMAIN tasks : tasks'[t] = tasks[t]
                 /\ projects' = projects
                 /\ IF procs[h].was = "assigned"
                      THEN procs'[h].pc = "task_project"
                      ELSE procs'[h].pc = "done" /\ procs'[h].code = 201
            /\ CreateTaskUpdateProject(h) =>
                 /\ tasks' = tasks
                 /\ procs[h].was = "assigned"
                 /\ projects'[p] = [projects[p] EXCEPT !.status = "in_progress"]
                 /\ \A q \in DOMAIN projects : q # p => projects'[q] = projects[q]
                 /\ procs'[h].code = 201
            /\ (procs'[h] # procs[h] /\ procs[h].was # "assigned") =>
                 projects' = projects]_vars

C11_Witness ==
  /\ procs[1].op = "createTask" /\ procs[1].pc = "done"
  /\ procs[1].code = 201
  /\ procs[2] = Idle
  /\ projects[1].status = "in_progress"
  /\ Len(tasks) = 2
  /\ \A t \in DOMAIN tasks : tasks[t].status = "pending"

\* C12: updateTask with a status that is not on the caller's allow-list
\* (pending, in_progress, submitted for a problem solver; completed, rejected
\* for a buyer; nothing for an admin) is answered with a rejection when it
\* has read the task, before prisma.task.update.
C12_UpdateTaskRejectsOffList ==
  [][(\E g \in Handlers : Begins(g, "updateTask")) =>
     \A h \in Handlers, u \in Users, t \in TaskIdInputs, st \in TaskStatuses,
        ok \in BOOLEAN :
       ( /\ BeginUpdateTask(h, u, t, st, ok)
         /\ t \in DOMAIN tasks
         /\ st \notin (CASE role[u] = "problem_solver" -> SolverAllowList
                         [] role[u] = "buyer" -> BuyerAllowList
                         [] OTHER -> {}) )
       => (procs'[h].pc = "done" /\ procs'[h].code >= 400)]_vars

\* C13: every state, under any interleaving of submission and review
\* handlers and after any failure, holds at most one submission per task;
\* and a submission handler that found a row for its task updates that same
\* row, which then carries the new file and status pending whatever its
\* status was.
C13_OneSubmissionPerTask ==
  [][/\ \A t \in DOMAIN tasks' : Cardinality(SubmissionOf(submissions', t)) <= 1
     /\ \A h \in Handlers :
          (procs[h].pc = "sub_update" /\ SubmissionUpdate(h))
          => \E i \in SubmissionOf(submissions, procs[h].id) :
               /\ DOMAIN submissions' = DOMAIN submissions
               /\ submissions'[i].taskId = procs[h].id
               /\ submissions'[i].filePath = procs[h].arg
               /\ submissions'[i].status = "pending"
               /\ \A j \in DOMAIN submissions :
                    j # i => submissions'[j] = submissions[j]]_vars

C13_Witness ==
  \E h, g \in Handlers :
    /\ procs[h].op = "submission" /\ procs[h].pc = "sub_create"
    /\ procs[g].op = "submission" /\ procs[g].pc = "sub_task_created"
    /\ procs[h].id = procs[g].id
    /\ Cardinality(SubmissionOf(submissions, procs[h].id)) = 1

\* C14: the last store call of a submission for task t, on the create path
\* (201) and on the replace path (200), leaves t with status submitted
\* whatever its status was, and changes no other task.
C14_SubmissionForcesSubmitted ==
  [][\A h \in Handlers :
       (Serves(h, "submission") /\ Answers(h) /\ procs'[h].code \in {200, 201})
       => LET t == procs[h].id IN
          /\ tasks'[t].status = "submitted"
          /\ \A k \in DOMAIN tasks : k # t => tasks'[k] = tasks[k]
          /\ (procs'[h].code = 201) <=> (procs[h].pc = "sub_task_created")
          /\ SubmissionOf(submissions', t) # {}]_vars

C14_Witness ==
  /\ procs[1].op = "submission" /\ procs[1].pc = "done"
  /\ procs[1].code = 200
  /\ procs[2] = Idle
  /\ projects[1].status = "completed"
  /\ \E i \in DOMAIN submissions :
       /\ tasks[submissions[i].taskId].status = "submitted"
       /\ submissions[i].status = "pending"

\* C15: the writes of a review with status accepted: the task of the
\* submission becomes completed; the handler then reads the tasks of the
\* project and writes completed to the project exactly when the project has
\* a task and all its tasks are completed; otherwise it answers with the
\* project untouched.
C15_AcceptCompletesProject ==
  [][\A h \in Handlers :
       (Serves(h, "review") /\ procs[h].arg = "accepted") =>
         LET i == procs[h].id
             t == submissions[i].taskId
             p == submissions[i].projectId IN
         /\ Moves(h, "review_submission", "review_task") =>
              submissions'[i].status = "accepted"
         /\ ReviewUpdateTask(h) =>
              /\ tasks'[t].status = "completed"
              /\ \A k \in DOMAIN tasks : k # t => tasks'[k] = tasks[k]
              /\ projects' = projects
              /\ procs'[h].pc = "review_find"
         /\ ReviewFindTasks(h) =>
              /\ projects' = projects
              /\ IF \A k \in DOMAIN tasks :
                      tasks[k].projectId = p => tasks[k].status = "completed"
                   THEN procs'[h].pc = "review_project"
                   ELSE procs'[h].pc = "done" /\ procs'[h].code = 200
         /\ ReviewUpdateProject(h) =>
              /\ projects'[p].status = "completed"
              /\ procs'[h].code = 200]_vars

C15_Witness ==
  /\ procs[1].op = "review" /\ procs[1].pc = "done"
  /\ procs[1].code = 200
  /\ procs[1].msg = "Submission accepted successfully"
  /\ procs[2] = Idle
  /\ projects[1].status = "in_progress"
  /\ Len(tasks) = 2
  /\ tasks[1].status = "completed"
  /\ tasks[2].status = "submitted"
  /\ submissions[1].status = "accepted"

\* The stage of a project status in open -> assigned -> in_progress -> completed.
StatusRank(st) ==
  CASE st = "open" -> 0
    [] st = "assigned" -> 1
    [] st = "in_progress" -> 2
    [] st = "completed" -> 3

\* C16: no operation moves a project's status to an earlier stage of
\* open -> assigned -> in_progress -> completed, and none removes an
\* assignment.
C16_ProjectStatusForwardOnly ==
  [][\A p \in DOMAIN projects :
       /\ StatusRank(projects'[p].status) >= StatusRank(projects[p].status)
       /\ projects[p].assignedSolverId # NULL =>
            projects'[p].assignedSolverId # NULL]_vars

\* C17: once the status of a task is rejected, no operation changes it.
C17_TaskRejectedTerminal ==
  [][\A t \in DOMAIN tasks :
       tasks[t].status = "rejected" => tasks'[t].status = "rejected"]_vars

\* C18: the only role change any operation performs is problem_solver ->
\* buyer: a buyer stays a buyer and an admin stays an admin, whoever applies
\* assign-buyer to whom.
C18_RoleChangeOnlySolverToBuyer ==
  [][\A u \in Users :
       role'[u] # role[u] =>
         (role[u] = "problem_solver" /\ role'[u] = "buyer")]_vars

\* C19: no state, between the writes of a review or after a failure of one,
\* shows a submission accepted while its task is not completed, or every
\* task of a project completed while the project is not completed.
C19_ReviewAllOrNothing ==
  /\ \A i \in DOMAIN submissions :
       submissions[i].status = "accepted" =>
         tasks[submissions[i].taskId].status = "completed"
  /\ \A p \in DOMAIN projects :
       AllCompleted(tasks, p) => projects[p].status = "completed"

\* C20: every read and write route that names a project, or a task or
\* submission of a project, denies a buyer who is not the buyer of that
\* project when it has read the row.
C20_BuyerConfinedToOwnProjects ==
  [][(\E g \in Handlers : procs[g] = Idle /\ procs'[g] # Idle) =>
     \A h \in Handlers, u \in Users, ok \in BOOLEAN :
       role[u] = "buyer" =>
         /\ \A p \in DOMAIN projects :
              ( /\ projects[p].buyerId # u
                /\ \/ BeginGetProject(h, u, p, ok)
                   \/ BeginGetRequestsByProject(h, u, p, ok)
                   \/ BeginGetTasksByProject(h, u, p, ok) )
              => (procs'[h].pc = "done" /\ procs'[h].code >= 400)
         /\ \A t \in DOMAIN tasks :
              ( /\ projects[tasks[t].projectId].buyerId # u
                /\ \/ GetTask(h, u, t, ok)
                   \/ BeginGetSubmissionByTask(h, u, t, ok)
                   \/ \E st \in StatusInputs : BeginUpdateTask(h, u, t, st, ok) )
              => (procs'[h].pc = "done" /\ procs'[h].code >= 400)
         /\ \A i \in DOMAIN submissions :
              ( /\ projects[submissions[i].projectId].buyerId # u
                /\ \/ BeginDownload(h, u, i, ok)
                   \/ \E st \in ReviewInputs : BeginReview(h, u, i, st, ok) )
              => (procs'[h].pc = "done" /\ procs'[h].code >= 400)]_vars

\* The steps of a route that come before its first write of a row.
BeforeFirstWrite ==
  {"request_check", "request_insert", "sub_upload", "sub_find"}

\* C21: a call that is answered 400, 403 or 404 is answered before its first
\* write and leaves users, projects, requests, tasks and submissions
\* unchanged; the upload of a submission adds one new file, and when the
\* submission is then answered 404 (no such task) or 403 (the caller is not
\* the assigned solver) that file is removed and no other.
C21_RejectionChangesNothing ==
  [][\A h \in Handlers :
       /\ (Answers(h) /\ procs'[h].code \in {400, 403, 404}) =>
            /\ Free(h) \/ procs[h].pc \in BeforeFirstWrite
            /\ UNCHANGED <<role, projects, requests, tasks, submissions>>
            /\ (procs'[h].op = "submission" /\ procs'[h].code \in {403, 404}) =>
                 IF Free(h)
                   THEN files' = files
                   ELSE /\ procs[h].arg \in files
                        /\ files' = files \ {procs[h].arg}
       /\ Moves(h, "sub_upload", "sub_find") =>
            /\ procs'[h].arg \notin files
            /\ files' = files \cup {procs'[h].arg}]_vars

C21_Witness ==
  /\ procs[1].op = "submission" /\ procs[1].pc = "done"
  /\ procs[1].code = 403 /\ procs[1].msg = "Not authorized"
  /\ procs[2] = Idle
  /\ Len(tasks) = 1
  /\ submissions = <<>>
  /\ files = {}

\* C22: in every state where no handler is in flight, a project that has at
\* least one task and whose tasks all have status completed has status
\* completed, whichever handler completed the last task.
C22_AllTasksCompletedCompletesProject ==
  Quiescent =>
    \A p \in DOMAIN projects :
      ( /\ TasksOf(tasks, p) # {}
        /\ \A t \in TasksOf(tasks, p) : tasks[t].status = "completed" )
      => projects[p].status = "completed"

\* C23: when a submission handler of solver u has written the row of task t,
\* on the create path and on the replace path, the submission of t has
\* solverId = u.
C23_SubmissionOwnedBySubmitter ==
  [][\A h \in Handlers :
       ( /\ Serves(h, "submission")
         /\ procs[h].pc \in {"sub_update", "sub_create"}
         /\ procs'[h].pc \in {"sub_task_replaced", "sub_task_created"} )
       => \E i \in SubmissionOf(submissions', procs[h].id) :
            submissions'[i].solverId = procs[h].actor]_vars

\* C24: in every state where no handler is in flight, a project with status
\* completed has at least one task and all its tasks have status completed.
C24_CompletedProjectHasOnlyCompletedTasks ==
  Quiescent =>
    \A p \in DOMAIN projects :
      projects[p].status = "completed" =>
        /\ TasksOf(tasks, p) # {}
        /\ \A t \in TasksOf(tasks, p) : tasks[t].status = "completed"

\* C25: once two assignSolver calls have both answered 200 and none is in
\* flight, a project assigned to a solver S who requested it has exactly one
\* accepted request, the request of S, whatever the interleaving of the two
\* calls was.
C25_OneAcceptedAfterConcurrentAssigns ==
  (\A h \in Handlers :
     /\ procs[h].op = "assignSolver" /\ procs[h].pc = "done"
     /\ procs[h].code = 200)
  => \A p \in DOMAIN projects :
       ( /\ projects[p].assignedSolverId # NULL
         /\ RequestExists(requests, p, projects[p].assignedSolverId) )
       => /\ Cardinality(RequestsWithStatus(requests, p, "accepted")) = 1
          /\ \A i \in RequestsWithStatus(requests, p, "accepted") :
               requests[i].solverId = projects[p].assignedSolverId

\* C26: in every state where no handler is in flight, a task has status
\* completed exactly when a submission for it exists with status accepted.
C26_CompletedIffAcceptedSubmission ==
  Quiescent =>
    \A t \in DOMAIN tasks :
      (tasks[t].status = "completed") <=>
        (\E i \in SubmissionOf(submissions, t) : submissions[i].status = "accepted")

\* C27: whenever no submission or review handler is in flight, the files in
\* the upload directory are exactly the files that submission rows refer to.
C27_FilesAreReferencedFiles ==
  (\A h \in Handlers : Free(h)) =>
    files = {submissions[i].filePath : i \in DOMAIN submissions}

\* C28: on a project that is assigned once, no interleaving of createTask,
\* submission and review handlers moves the project status to an earlier
\* stage; in particular the in_progress written by createTask never
\* replaces completed.
C28_NoBackwardStatusUnderRace ==
  [][\A p \in DOMAIN projects :
       StatusRank(projects'[p].status) >= StatusRank(projects[p].status)]_vars

\* C29: a step of a review handler changes a submission only when its status
\* is pending, and none gives a completed project a rejected task.
C29_ReviewOnlyWhenPending ==
  [][(\E h \in Handlers : Serves(h, "review") /\ procs'[h] # procs[h]) =>
       /\ \A i \in DOMAIN submissions :
            submissions[i].status # "pending" => submissions'[i] = submissions[i]
       /\ \A t \in DOMAIN tasks :
            ( /\ projects[tasks[t].projectId].status = "completed"
              /\ tasks[t].status # "rejected" )
            => tasks'[t].status # "rejected"]_vars

\* C30: in every state the assignedSolverId of a project names a user whose
\* role is problem_solver.
C30_AssignedSolverIsProblemSolver ==
  \A p \in DOMAIN projects :
    projects[p].assignedSolverId # NULL =>
      /\ projects[p].assignedSolverId \in Users
      /\ role[projects[p].assignedSolverId] = "problem_solver"

====
